---- MODULE Spec2Model ----
(***************************************************************************)
(* Model of the webhooks service (src/services/webhooks.service.js): the   *)
(* chunker, the per-chunk request runner and the multi-round retry         *)
(* coordinator behind the "trigger" action.                                *)
(***************************************************************************)
EXTENDS Integers, Sequences, FiniteSets, TLC

\* ---------------------------------------------------------------- bounds
MaxHooks == 3   \* at most this many registered hooks are returned by find
MaxBatch == 2   \* BATCH_SIZE ranges over 0..MaxBatch
MaxRetry == 3   \* RETRY_COUNT ranges over 0..MaxRetry
MaxStore == 1   \* documents with _id in 1..MaxStore exist when two calls overlap

VARIABLES
    settings,        \* this.settings: [BATCH_SIZE, RETRY_COUNT]
    svc,             \* service lifecycle: "created" | "started"
    pc,              \* position of the trigger handler
    webHooks,        \* result of adapter.find({}) in the handler
    i,               \* round being awaited (0 = first pass, else loop variable i)
    chunks,          \* chunks / failedChunks of the round being awaited
    prom,            \* per chunk, per hook: the promise built in makeRequests
    batchRequest,    \* per chunk: the makeRequests promise ("pending" or its value)
    failedRequests,  \* initateProcessing's failedRequests
    successRequests, \* initateProcessing's successRequests
    trigger_Report,  \* initateProcessing's trigger_Report (key -> array)
    posted,          \* history: <<round, _id>> of every axios.post issued
    outcomes,        \* history: <<round, _id, success>> of every resolved attempt
    nPosts,          \* history: per _id, the number of axios.post calls issued
    findResult,      \* how adapter.find({}) ended: "none" | "resolved" | "rejected"
    db,              \* the documents of the webhook collection, in find order
    otherCall,       \* the locals and history of a second, suspended trigger call
    c_arr, c_size,   \* arguments of a stand-alone call of chunkWebHooks
    c_pc, c_chunks   \* that call's position and the chunks it built

vars == <<settings, svc, pc, webHooks, i, chunks, prom, batchRequest,
          failedRequests, successRequests, trigger_Report, posted, outcomes,
          nPosts, findResult, db, otherCall, c_arr, c_size, c_pc, c_chunks>>

dispatchVars == <<settings, svc, pc, webHooks, i, chunks, prom, batchRequest,
                  failedRequests, successRequests, trigger_Report, posted, outcomes,
                  nPosts, findResult>>
chunkVars == <<c_arr, c_size, c_pc, c_chunks>>
storeVars == <<db, otherCall>>

\* ---------------------------------------------------------------- data
Ids == 1..MaxHooks

\* A registered hook as seedDB writes it: name Server#n, hookURL http://localhost:400n
Hook(n) == [_id |-> n, name |-> <<"Server#", n>>, hookURL |-> <<"http://localhost:400", n>>]

\* The lists adapter.find can return: hooks with pairwise distinct _id, any order
Injections(n) == { g \in [1..n -> Ids] : \A a, b \in 1..n : a # b => g[a] # g[b] }
HookSeqs == UNION { { [k \in 1..n |-> Hook(f[k])] : f \in Injections(n) } : n \in 0..MaxHooks }

Min(a, b) == IF a < b THEN a ELSE b
Max(a, b) == IF a > b THEN a ELSE b

\* ---------------------------------------------------------------- chunker
\* Array.prototype.slice(start, end) on a 0-based array
RelIndex(x, n) == IF x < 0 THEN Max(n + x, 0) ELSE Min(x, n)
slice(arr, start, end) ==
    LET a == RelIndex(start, Len(arr))
        b == RelIndex(end, Len(arr))
    IN  IF a < b THEN SubSeq(arr, a + 1, b) ELSE <<>>

\* The while loop of chunkWebHooks.  Each pass with chunkSize >= 1 advances i
\* by at least one, so a loop that has pushed more than n chunks and still has
\* i < n never exits: that call does not return (ret = FALSE).
\* variant: each slice runs one element past its chunk
RECURSIVE chunkLoopOverlap(_, _, _, _)
chunkLoopOverlap(webHooksArray, chunkSize, idx, acc) ==
    IF idx < Len(webHooksArray)
    THEN IF Len(acc) > Len(webHooksArray)
         THEN [ret |-> FALSE, chunks |-> acc]
         ELSE chunkLoopOverlap(webHooksArray, chunkSize, idx + chunkSize,
                        Append(acc, slice(webHooksArray, idx, idx + chunkSize + 1)))
    ELSE [ret |-> TRUE, chunks |-> acc]

RECURSIVE chunkLoop(_, _, _, _)
chunkLoop(webHooksArray, chunkSize, idx, acc) ==
    IF idx < Len(webHooksArray)
    THEN IF Len(acc) > Len(webHooksArray)
         THEN [ret |-> FALSE, chunks |-> acc]
         ELSE chunkLoop(webHooksArray, chunkSize, idx + chunkSize,
                        Append(acc, slice(webHooksArray, idx, idx + chunkSize)))
    ELSE [ret |-> TRUE, chunks |-> acc]

chunkWebHooks(webHooksArray, chunkSize) == chunkLoop(webHooksArray, chunkSize, 0, <<>>)

\* ---------------------------------------------------------------- transport
\* What axios.post(url, body) settles with: a response carrying a status, or a
\* rejection (connection refused, DNS failure, timeout, a status axios rejects)
Statuses == {200, 201}
PostResults == { [kind |-> "response", status |-> st] : st \in Statuses }
                   \cup { [kind |-> "error", status |-> 0] }

\* variant: any response counts as delivered
postThenAnyStatus(hook, res) ==
    [success |-> TRUE, hookURL |-> hook.hookURL, _id |-> hook._id, name |-> hook.name]

\* .then((res) => ...) of makeRequests
postThen(hook, res) ==
    [success |-> (res.status = 200), hookURL |-> hook.hookURL, _id |-> hook._id, name |-> hook.name]

\* .catch((err) => ...) of makeRequests
postCatch(hook) ==
    [success |-> FALSE, hookURL |-> hook.hookURL, _id |-> hook._id, name |-> hook.name]

\* the value the per-hook promise of makeRequests resolves with
settle(hook, r) == IF r.kind = "response" THEN postThen(hook, r) ELSE postCatch(hook)

Reverse(seq) == [j \in 1..Len(seq) |-> seq[Len(seq) + 1 - j]]

\* variant: failures are put at the front of failed instead of pushed at its end
groupResponsesUnshift(responseArray) ==
    [success |-> SelectSeq(responseArray, LAMBDA response : response.success),
     failed  |-> Reverse(SelectSeq(responseArray, LAMBDA response : ~response.success))]

\* variant: the else is missing, every response is pushed on failed
groupResponsesFallThrough(responseArray) ==
    [success |-> SelectSeq(responseArray, LAMBDA response : response.success),
     failed  |-> responseArray]

\* groupResponses: forEach pushes each response on success or on failed
groupResponses(responseArray) ==
    [success |-> SelectSeq(responseArray, LAMBDA response : response.success),
     failed  |-> SelectSeq(responseArray, LAMBDA response : ~response.success)]

\* webHooksArray.map(async hook => axios.post(hook.hookURL, postData)...):
\* one pending promise per hook, remembering the URL that was posted to
makeRequests(webHooksArray) ==
    [j \in 1..Len(webHooksArray) |->
        [hookURL |-> webHooksArray[j].hookURL, settled |-> FALSE,
         res |-> [kind |-> "pending", status |-> 0], value |-> <<>>]]

\* ---------------------------------------------------------------- report
Key(name, k) == <<name, k>>
SuccessKey == Key("successRequests", 0)
RetryKey(k) == Key("retrySuccess", k)
FailedKey == Key("failed", 0)
Put(report, key, val) ==
    [x \in (DOMAIN report) \cup {key} |-> IF x = key THEN val ELSE report[x]]

\* variant: only the last batch is kept
FlattenLast(batches, field) ==
    IF batches = <<>> THEN <<>> ELSE batches[Len(batches)][field]

RECURSIVE Flatten(_, _)
\* forEach(batch => target.push(...batch[field])) over the resolved batches
Flatten(batches, field) ==
    IF batches = <<>> THEN <<>>
    ELSE batches[1][field] \o Flatten(Tail(batches), field)

\* retryResponses.forEach(batch => trigger_Report[`retrySuccess${i}`] = success)
RECURSIVE AssignEach(_, _, _)
AssignEach(report, key, batches) ==
    IF batches = <<>> THEN report
    ELSE AssignEach(Put(report, key, batches[1].success), key, Tail(batches))

IdsOf(seq) == { seq[j]._id : j \in 1..Len(seq) }

\* the elements of all groups, in order
RECURSIVE Concat(_)
Concat(groups) == IF Len(groups) = 0 THEN <<>> ELSE groups[1] \o Concat(Tail(groups))

\* ---------------------------------------------------------------- initial state
\* the locals and history of a trigger call that has not run yet
FreshCall ==
    [pc |-> "idle", webHooks |-> <<>>, i |-> 0, chunks |-> <<>>, prom |-> <<>>,
     batchRequest |-> <<>>, failedRequests |-> <<>>, successRequests |-> <<>>,
     trigger_Report |-> <<>>, posted |-> {}, outcomes |-> {},
     nPosts |-> [id \in Ids |-> 0], findResult |-> "none"]

Init ==
    /\ settings \in [BATCH_SIZE : 0..MaxBatch, RETRY_COUNT : 0..MaxRetry]
    /\ svc = "created"
    /\ pc = "idle"
    /\ webHooks = <<>>
    /\ i = 0
    /\ chunks = <<>>
    /\ prom = <<>>
    /\ batchRequest = <<>>
    /\ failedRequests = <<>>
    /\ successRequests = <<>>
    /\ trigger_Report = <<>>
    /\ posted = {}
    /\ outcomes = {}
    /\ nPosts = [id \in Ids |-> 0]
    /\ findResult = "none"
    /\ db = <<>>
    /\ otherCall = FreshCall
    /\ c_arr = <<>> /\ c_size = 0 /\ c_pc = "unused" /\ c_chunks = <<>>

\* ---------------------------------------------------------------- lifecycle
\* started(): calls seedDB, which only writes to the external store; the
\* settings are not inspected
started ==
    /\ svc = "created"
    /\ svc' = "started"
    /\ UNCHANGED <<settings, pc, webHooks, i, chunks, prom, batchRequest, failedRequests,
                   successRequests, trigger_Report, posted, outcomes, nPosts, findResult,
                   chunkVars, storeVars>>

\* ---------------------------------------------------------------- one round
\* the number of posts that the fan-out over groups issues to endpoint id
PostsTo(id, groups) ==
    Cardinality({ <<k, j>> \in (1..Len(groups)) \X (1..MaxHooks + 1) :
                    j <= Len(groups[k]) /\ groups[k][j]._id = id })

\* variant: only the first chunk is dispatched when the round starts
StartRoundFirstChunk(round, input) ==
    LET c == chunkWebHooks(input, settings.BATCH_SIZE) IN
    IF c.ret
    THEN /\ pc' = "awaiting"
         /\ i' = round
         /\ chunks' = c.chunks
         /\ prom' = [k \in 1..Len(c.chunks) |->
                        IF k = 1 THEN makeRequests(c.chunks[k]) ELSE <<>>]
         /\ batchRequest' = [k \in 1..Len(c.chunks) |-> [settled |-> FALSE, value |-> <<>>]]
         /\ LET first == IF Len(c.chunks) = 0 THEN <<>> ELSE <<c.chunks[1]>> IN
              /\ posted' = posted \cup { <<round, id>> : id \in IdsOf(Concat(first)) }
              /\ nPosts' = [id \in Ids |-> nPosts[id] + PostsTo(id, first)]
    ELSE /\ pc' = "hung"
         /\ i' = round
         /\ chunks' = c.chunks
         /\ UNCHANGED <<prom, batchRequest, posted, nPosts>>

\* chunk the input, then chunks.map(subset => this.makeRequests(subset, postData)):
\* every post of every chunk is issued before the handler awaits
StartRound(round, input) ==
    LET c == chunkWebHooks(input, settings.BATCH_SIZE) IN
    IF c.ret
    THEN /\ pc' = "awaiting"
         /\ i' = round
         /\ chunks' = c.chunks
         /\ prom' = [k \in 1..Len(c.chunks) |-> makeRequests(c.chunks[k])]
         /\ batchRequest' = [k \in 1..Len(c.chunks) |-> [settled |-> FALSE, value |-> <<>>]]
         /\ posted' = posted \cup { <<round, input[j]._id>> : j \in 1..Len(input) }
         /\ nPosts' = [id \in Ids |-> nPosts[id] + PostsTo(id, c.chunks)]
    ELSE /\ pc' = "hung"
         /\ i' = round
         /\ chunks' = c.chunks
         /\ UNCHANGED <<prom, batchRequest, posted, nPosts>>

\* trigger handler, adapter.find({}) rejects: the error is rethrown
triggerFindRejects ==
    /\ svc = "started" /\ pc = "idle"
    /\ pc' = "error"
    /\ findResult' = "rejected"
    /\ UNCHANGED <<settings, svc, webHooks, i, chunks, prom, batchRequest, failedRequests,
                   successRequests, trigger_Report, posted, outcomes, nPosts, chunkVars, storeVars>>

\* variant: an empty list is treated as an error by the handler
triggerRejectsEmpty(found) ==
    /\ svc = "started" /\ pc = "idle"
    /\ webHooks' = found
    /\ findResult' = "resolved"
    /\ IF found = <<>>
       THEN pc' = "error" /\ UNCHANGED <<i, chunks, prom, batchRequest, posted, nPosts>>
       ELSE StartRound(0, found)
    /\ UNCHANGED <<settings, svc, failedRequests, successRequests, trigger_Report,
                   outcomes, chunkVars, storeVars>>

\* trigger handler, adapter.find({}) resolves with found: initateProcessing
\* runs up to its first await
trigger(found) ==
    /\ svc = "started" /\ pc = "idle"
    /\ webHooks' = found
    /\ findResult' = "resolved"
    /\ StartRound(0, found)
    /\ UNCHANGED <<settings, svc, failedRequests, successRequests, trigger_Report,
                   outcomes, chunkVars, storeVars>>

\* variant: no catch on the post, so a rejected post rejects Promise.all and the
\* handler rethrows
axiosSettlesRethrow(k, j, r) ==
    /\ pc = "awaiting"
    /\ ~prom[k][j].settled
    /\ IF r.kind = "error"
       THEN /\ pc' = "error"
            /\ UNCHANGED <<prom, outcomes>>
       ELSE LET value == postThen(chunks[k][j], r) IN
            /\ prom' = [prom EXCEPT ![k][j] = [hookURL |-> @.hookURL, settled |-> TRUE,
                                               res |-> r, value |-> value]]
            /\ outcomes' = outcomes \cup { <<i, value._id, value.success>> }
            /\ pc' = pc
    /\ UNCHANGED <<settings, svc, webHooks, i, chunks, batchRequest, failedRequests,
                   successRequests, trigger_Report, posted, nPosts, findResult, chunkVars, storeVars>>

\* variant: outcomes are collected in the order the posts complete
axiosSettlesCompletionOrder(k, j, r) ==
    /\ pc = "awaiting"
    /\ ~prom[k][j].settled
    /\ LET hook == CHOOSE h \in { chunks[k][x] : x \in 1..Len(chunks[k]) } :
                       h.hookURL = prom[k][j].hookURL
           value == settle(hook, r)
           done == SelectSeq(prom[k], LAMBDA p : p.settled)
           rest == SelectSeq(prom[k], LAMBDA p : ~p.settled /\ p.hookURL # hook.hookURL)
       IN  /\ prom' = [prom EXCEPT ![k] =
                          done \o <<[hookURL |-> hook.hookURL, settled |-> TRUE,
                                     res |-> r, value |-> value]>> \o rest]
           /\ outcomes' = outcomes \cup { <<i, value._id, value.success>> }
    /\ UNCHANGED <<settings, svc, pc, webHooks, i, chunks, batchRequest, failedRequests,
                   successRequests, trigger_Report, posted, nPosts, findResult, chunkVars, storeVars>>

\* one axios.post settles; its then/catch produces the outcome
axiosSettles(k, j, r) ==
    /\ pc = "awaiting"
    /\ ~prom[k][j].settled
    /\ LET value == settle(chunks[k][j], r) IN
        /\ prom' = [prom EXCEPT ![k][j] = [hookURL |-> @.hookURL, settled |-> TRUE,
                                           res |-> r, value |-> value]]
        /\ outcomes' = outcomes \cup { <<i, value._id, value.success>> }
    /\ UNCHANGED <<settings, svc, pc, webHooks, i, chunks, batchRequest, failedRequests,
                   successRequests, trigger_Report, posted, nPosts, findResult, chunkVars, storeVars>>

\* makeRequests: Promise.all(prom) resolves, groupResponses(responses) is returned
makeRequestsReturns(k) ==
    /\ pc = "awaiting"
    /\ ~batchRequest[k].settled
    /\ \A j \in 1..Len(prom[k]) : prom[k][j].settled
    /\ batchRequest' = [batchRequest EXCEPT
          ![k] = [settled |-> TRUE,
                  value |-> groupResponses([j \in 1..Len(prom[k]) |-> prom[k][j].value])]]
    /\ UNCHANGED <<settings, svc, pc, webHooks, i, chunks, prom, failedRequests,
                   successRequests, trigger_Report, posted, outcomes, nPosts, findResult,
                   chunkVars, storeVars>>

\* variant: the loop condition is i <= RETRY_COUNT
LoopOrReturnInclusive(round, failed, report) ==
    IF round <= settings.RETRY_COUNT
    THEN /\ StartRound(round, failed)
         /\ failedRequests' = <<>>
         /\ trigger_Report' = report
    ELSE /\ pc' = "done"
         /\ failedRequests' = failed
         /\ trigger_Report' = Put(report, FailedKey, failed)
         /\ UNCHANGED <<i, chunks, prom, batchRequest, posted, nPosts>>

\* variant: the retry round reads the collection again instead of using the
\* failures of the round before
LoopOrReturnRefetch(round, failed, report) ==
    IF round < settings.RETRY_COUNT
    THEN /\ StartRound(round, db)
         /\ failedRequests' = <<>>
         /\ trigger_Report' = report
    ELSE /\ pc' = "done"
         /\ failedRequests' = failed
         /\ trigger_Report' = Put(report, FailedKey, failed)
         /\ UNCHANGED <<i, chunks, prom, batchRequest, posted, nPosts>>

\* for(let i=1;i<RETRY_COUNT;i++): either start retry round "round" on the
\* failures, or leave the loop, set trigger_Report["failed"] and return
LoopOrReturn(round, failed, report) ==
    IF round < settings.RETRY_COUNT
    THEN /\ StartRound(round, failed)
         /\ failedRequests' = <<>>
         /\ trigger_Report' = report
    ELSE /\ pc' = "done"
         /\ failedRequests' = failed
         /\ trigger_Report' = Put(report, FailedKey, failed)
         /\ UNCHANGED <<i, chunks, prom, batchRequest, posted, nPosts>>

\* what await Promise.all(batchRequest) / Promise.all(retryRequests) yields
batchResponse == [k \in 1..Len(batchRequest) |-> batchRequest[k].value]

\* variant: the retry loop is fed the original hooks instead of the failures
afterRound0RetryAll ==
    /\ pc = "awaiting" /\ i = 0
    /\ \A k \in 1..Len(batchRequest) : batchRequest[k].settled
    /\ LET success == Flatten(batchResponse, "success")
       IN  /\ successRequests' = success
           /\ LoopOrReturn(1, webHooks, Put(<<>>, SuccessKey, success))
    /\ UNCHANGED <<settings, svc, webHooks, outcomes, findResult, chunkVars, storeVars>>

\* variant: the handler resumes as soon as one makeRequests promise is resolved
afterRound0Race ==
    /\ pc = "awaiting" /\ i = 0
    /\ \E k \in 1..Len(batchRequest) : batchRequest[k].settled
    /\ LET settledOnes == SelectSeq(batchRequest, LAMBDA b : b.settled)
           done == [k \in 1..Len(settledOnes) |-> settledOnes[k].value]
           failed == Flatten(done, "failed")
           success == Flatten(done, "success")
       IN  /\ successRequests' = success
           /\ LoopOrReturn(1, failed, Put(<<>>, SuccessKey, success))
    /\ UNCHANGED <<settings, svc, webHooks, outcomes, findResult, chunkVars, storeVars>>

\* await Promise.all(batchRequest) resumes: merge round 0, build the report,
\* enter the retry loop
afterRound0 ==
    /\ pc = "awaiting" /\ i = 0
    /\ \A k \in 1..Len(batchRequest) : batchRequest[k].settled
    /\ LET failed == Flatten(batchResponse, "failed")
           success == Flatten(batchResponse, "success")
       IN  /\ successRequests' = success
           /\ LoopOrReturn(1, failed, Put(<<>>, SuccessKey, success))
    /\ UNCHANGED <<settings, svc, webHooks, outcomes, findResult, chunkVars, storeVars>>

\* variant: the retry round is awaited with Promise.race, which stays pending
\* when there is no chunk
afterRetryRace ==
    /\ pc = "awaiting" /\ i >= 1
    /\ Len(batchRequest) > 0
    /\ \A k \in 1..Len(batchRequest) : batchRequest[k].settled
    /\ LoopOrReturn(i + 1, Flatten(batchResponse, "failed"),
                    AssignEach(trigger_Report, RetryKey(i), batchResponse))
    /\ UNCHANGED <<settings, svc, webHooks, successRequests, outcomes, findResult, chunkVars, storeVars>>

\* await Promise.all(retryRequests) resumes: merge retry round i, i++
afterRetry ==
    /\ pc = "awaiting" /\ i >= 1
    /\ \A k \in 1..Len(batchRequest) : batchRequest[k].settled
    /\ LoopOrReturn(i + 1, Flatten(batchResponse, "failed"),
                    AssignEach(trigger_Report, RetryKey(i), batchResponse))
    /\ UNCHANGED <<settings, svc, webHooks, successRequests, outcomes, findResult, chunkVars, storeVars>>

Next ==
    \/ started
    \/ triggerFindRejects
    \/ \E found \in HookSeqs : trigger(found)
    \/ \E k \in 1..Len(prom) : \E j \in 1..Len(prom[k]) : \E r \in PostResults :
          axiosSettles(k, j, r)
    \/ \E k \in 1..Len(batchRequest) : makeRequestsReturns(k)
    \/ afterRound0
    \/ afterRetry

Spec == Init /\ [][Next]_vars

\* some pending post settles / some makeRequests call returns
somePostSettles ==
    \E k \in 1..Len(prom) : \E j \in 1..Len(prom[k]) : \E r \in PostResults :
        axiosSettles(k, j, r)
someMakeRequestsReturns == \E k \in 1..Len(batchRequest) : makeRequestsReturns(k)

\* the event loop runs every continuation that is ready; nothing in the code
\* (no timeout is passed to axios.post) makes a pending post settle
HandlerFairness ==
    /\ WF_vars(someMakeRequestsReturns)
    /\ WF_vars(afterRound0)
    /\ WF_vars(afterRetry)
SpecHandlers == Init /\ [][Next]_vars /\ HandlerFairness

\* the lists find returns when it yields the documents in ascending _id order
AscendingHookSeqs ==
    { w \in HookSeqs : \A a, b \in 1..Len(w) : a < b => w[a]._id < w[b]._id }

NextResolving ==
    \/ started
    \/ triggerFindRejects
    \/ \E found \in AscendingHookSeqs : trigger(found)
    \/ somePostSettles
    \/ someMakeRequestsReturns
    \/ afterRound0
    \/ afterRetry

\* the handler on ascending lists, with every endpoint answering or failing in
\* the end
SpecResolving ==
    Init /\ [][NextResolving]_vars /\ HandlerFairness /\ WF_vars(somePostSettles)

\* ---------------------------------------------------------------- overlapping calls
StoreIds == 1..MaxStore
StoreSeqs == { w \in HookSeqs : IdsOf(w) \subseteq StoreIds }

\* validUrl.isWebUri on the URLs used here
isWebUri(url) == url[1] \in {"http://localhost:400", "http://localhost:500"}
UpdateURLs == {"http://localhost:500", "localhost:500"}

InitOverlap ==
    /\ settings = [BATCH_SIZE |-> 1, RETRY_COUNT |-> 2]
    /\ svc = "created"
    /\ pc = "idle"
    /\ webHooks = <<>>
    /\ i = 0
    /\ chunks = <<>>
    /\ prom = <<>>
    /\ batchRequest = <<>>
    /\ failedRequests = <<>>
    /\ successRequests = <<>>
    /\ trigger_Report = <<>>
    /\ posted = {}
    /\ outcomes = {}
    /\ nPosts = [id \in Ids |-> 0]
    /\ findResult = "none"
    /\ db \in StoreSeqs
    /\ otherCall = FreshCall
    /\ c_arr = <<>> /\ c_size = 0 /\ c_pc = "unused" /\ c_chunks = <<>>

\* a delivered post and a refused one
OverlapResults == { [kind |-> "response", status |-> 200], [kind |-> "error", status |-> 0] }

callVars == <<pc, webHooks, i, chunks, prom, batchRequest, failedRequests, successRequests,
              trigger_Report, posted, outcomes, nPosts, findResult>>

\* one trigger call is between its find and its return and the other has not
\* read the collection yet
InFlightCall == {pc, otherCall.pc} = {"awaiting", "idle"}

\* "create" of the moleculer-db mixin: a document is added to the collection
\* (registration changes are followed while the first trigger call is in flight,
\* up to the find of the second)
create(n) ==
    /\ svc = "started" /\ InFlightCall
    /\ n \notin IdsOf(db)
    /\ db' = Append(db, Hook(n))
    /\ UNCHANGED <<settings, svc, callVars, otherCall, chunkVars>>

\* "remove" of the moleculer-db mixin: a document is deleted
remove(n) ==
    /\ svc = "started" /\ InFlightCall
    /\ n \in IdsOf(db)
    /\ db' = SelectSeq(db, LAMBDA h : h._id # n)
    /\ UNCHANGED <<settings, svc, callVars, otherCall, chunkVars>>

\* validateAndUpdate: throws on a hookURL that is not a web URI, else
\* adapter.updateById(_id, {name, hookURL})
validateAndUpdate(n, name, hookURL) ==
    /\ svc = "started" /\ InFlightCall
    /\ n \in IdsOf(db)
    /\ db' = IF isWebUri(hookURL)
             THEN [x \in 1..Len(db) |->
                     IF db[x]._id = n
                     THEN [_id |-> n, name |-> name, hookURL |-> hookURL]
                     ELSE db[x]]
             ELSE db
    /\ UNCHANGED <<settings, svc, callVars, otherCall, chunkVars>>

\* trigger handler with adapter.find({}) resolving with the collection
triggerReadsStore ==
    /\ trigger(db)
    /\ db' = db

\* the event loop leaves one trigger call at an await and resumes the other:
\* each call has its own webHooks, chunks, failedRequests, successRequests and
\* trigger_Report (const / let inside the handler and initateProcessing)
switchCall ==
    /\ svc = "started"
    /\ pc # "idle" \/ otherCall.pc # "idle"
    /\ otherCall' = [pc |-> pc, webHooks |-> webHooks, i |-> i, chunks |-> chunks,
                     prom |-> prom, batchRequest |-> batchRequest,
                     failedRequests |-> failedRequests,
                     successRequests |-> successRequests,
                     trigger_Report |-> trigger_Report, posted |-> posted,
                     outcomes |-> outcomes, nPosts |-> nPosts, findResult |-> findResult]
    /\ pc' = otherCall.pc
    /\ webHooks' = otherCall.webHooks
    /\ i' = otherCall.i
    /\ chunks' = otherCall.chunks
    /\ prom' = otherCall.prom
    /\ batchRequest' = otherCall.batchRequest
    /\ failedRequests' = otherCall.failedRequests
    /\ successRequests' = otherCall.successRequests
    /\ trigger_Report' = otherCall.trigger_Report
    /\ posted' = otherCall.posted
    /\ outcomes' = otherCall.outcomes
    /\ nPosts' = otherCall.nPosts
    /\ findResult' = otherCall.findResult
    /\ UNCHANGED <<settings, svc, db, chunkVars>>

NextOverlap ==
    \/ started
    \/ \E n \in StoreIds : create(n)
    \/ \E n \in StoreIds : remove(n)
    \/ \E n \in StoreIds : \E u \in UpdateURLs :
          validateAndUpdate(n, <<"Server#", n>>, <<u, n>>)
    \/ triggerReadsStore
    \/ \E k \in 1..Len(prom) : \E j \in 1..Len(prom[k]) : \E r \in OverlapResults :
          axiosSettles(k, j, r)
    \/ someMakeRequestsReturns
    \/ afterRound0
    \/ afterRetry
    \/ switchCall

SpecOverlap == InitOverlap /\ [][NextOverlap]_vars

\* ---------------------------------------------------------------- chunker alone
ChunkSizes == (0 - 1)..(MaxBatch + 1)

InitChunk ==
    /\ settings = [BATCH_SIZE |-> 1, RETRY_COUNT |-> 1]
    /\ svc = "created"
    /\ pc = "idle"
    /\ webHooks = <<>>
    /\ i = 0
    /\ chunks = <<>>
    /\ prom = <<>>
    /\ batchRequest = <<>>
    /\ failedRequests = <<>>
    /\ successRequests = <<>>
    /\ trigger_Report = <<>>
    /\ posted = {}
    /\ outcomes = {}
    /\ nPosts = [id \in Ids |-> 0]
    /\ findResult = "none"
    /\ db = <<>>
    /\ otherCall = FreshCall
    /\ c_arr \in HookSeqs
    /\ c_size \in ChunkSizes
    /\ c_pc = "ready"
    /\ c_chunks = <<>>

\* a call chunkWebHooks(c_arr, c_size)
chunkCall ==
    /\ c_pc = "ready"
    /\ LET c == chunkWebHooks(c_arr, c_size) IN
        /\ c_pc' = IF c.ret THEN "returned" ELSE "looping"
        /\ c_chunks' = c.chunks
    /\ UNCHANGED <<c_arr, c_size, dispatchVars, storeVars>>

NextChunk == chunkCall

SpecChunk == InitChunk /\ [][NextChunk]_vars

\* ================================================================ properties
ValidConfig == settings.BATCH_SIZE >= 1 /\ settings.RETRY_COUNT >= 1

\* number of places (bucket, position) of the report that hold endpoint id
Places(id) ==
    { <<key, j>> \in (DOMAIN trigger_Report) \X (1..MaxHooks) :
        j <= Len(trigger_Report[key]) /\ trigger_Report[key][j]._id = id }

SuccessBuckets == (DOMAIN trigger_Report) \ {FailedKey}

\* the bucket of the report under key, empty when the key is absent
Bucket(key) == IF key \in DOMAIN trigger_Report THEN trigger_Report[key] ELSE <<>>

Succeeded(round) == { id \in Ids : <<round, id, TRUE>> \in outcomes }
Failed(round) == { id \in Ids : <<round, id, FALSE>> \in outcomes }
Posted(round) == { id \in Ids : <<round, id>> \in posted }

\* round k has been merged by the coordinator
Merged(k) == (pc = "awaiting" /\ i > k) \/ (pc = "done" /\ i >= k)

\* C1: with BATCH_SIZE >= 1 and RETRY_COUNT >= 1, in the returned report every
\* endpoint id of the original set is in exactly one bucket (round-0 success,
\* one retrySuccess<k>, or failed): never in two, never in none.
C1_BucketPartition ==
    (pc = "done" /\ ValidConfig) =>
        \A id \in IdsOf(webHooks) : Cardinality(Places(id)) = 1

\* C2: round 0's success bucket is the union of all chunks' successes and its
\* failures are the input of round 1; every merged retry round k has in its
\* bucket the successes of every chunk of that round, and the failures of every
\* chunk are the input of round k+1 (or the failed bucket after the last round).
C2_RoundBuckets ==
    ValidConfig =>
        \A k \in 0..(MaxRetry + 1) :
            Merged(k) =>
                /\ IdsOf(Bucket(IF k = 0 THEN SuccessKey ELSE RetryKey(k))) = Succeeded(k)
                /\ (k + 1 < settings.RETRY_COUNT) => Posted(k + 1) = Failed(k)
                /\ (k + 1 = settings.RETRY_COUNT /\ pc = "done") =>
                       IdsOf(Bucket(FailedKey)) = Failed(k)

\* C3: an endpoint whose attempt failed in every round 0..RETRY_COUNT-1 is, in
\* the returned report, in the failed bucket and in no success bucket.
C3_RetryExhaustion ==
    (pc = "done" /\ ValidConfig) =>
        \A id \in IdsOf(webHooks) :
            (\A k \in 0..(settings.RETRY_COUNT - 1) : <<k, id, FALSE>> \in outcomes) =>
                /\ id \in IdsOf(Bucket(FailedKey))
                /\ \A key \in SuccessBuckets : id \notin IdsOf(trigger_Report[key])

C3_Witness ==
    /\ pc = "done" /\ settings.RETRY_COUNT = 3 /\ settings.BATCH_SIZE = 1
    /\ \E id, other \in IdsOf(webHooks) :
          /\ id # other
          /\ \A k \in 0..2 : <<k, id, FALSE>> \in outcomes /\ <<k, other, FALSE>> \in outcomes
          /\ {id, other} \subseteq IdsOf(Bucket(FailedKey))

\* C4: an endpoint that succeeded in round j is not posted to in any later
\* round, and every retry round posts only to endpoints that failed in the round
\* before it.
C4_NoRedelivery ==
    /\ \A o \in outcomes : \A p \in posted :
          (o[3] /\ p[2] = o[2]) => p[1] <= o[1]
    /\ \A p \in posted : p[1] >= 1 => <<p[1] - 1, p[2], FALSE>> \in outcomes

C4_Witness ==
    \E o \in outcomes : \E p \in posted :
        o[3] /\ o[1] = 0 /\ p[1] = 2 /\ p[2] # o[2]

\* the identity (_id, name, hookURL) of each element of a sequence
Identity(seq) ==
    [j \in 1..Len(seq) |-> [_id |-> seq[j]._id, name |-> seq[j].name, hookURL |-> seq[j].hookURL]]

\* C5: makeRequests posts exactly once per endpoint of its group, and its result
\* is a stable partition of the group: sizes add up, no id on both sides, each
\* outcome keeps _id, name and hookURL, and each side keeps the input order.
C5_StablePartition ==
    \A k \in 1..Len(batchRequest) :
        /\ Len(prom[k]) = Len(chunks[k])
        /\ \A j \in 1..Len(prom[k]) : prom[k][j].hookURL = chunks[k][j].hookURL
        /\ batchRequest[k].settled =>
             LET success == batchRequest[k].value.success
                 failed == batchRequest[k].value.failed
             IN  /\ Len(success) + Len(failed) = Len(chunks[k])
                 /\ IdsOf(success) \cap IdsOf(failed) = {}
                 /\ \A j \in 1..Len(success) : success[j].success
                 /\ \A j \in 1..Len(failed) : ~failed[j].success
                 /\ Identity(success) =
                      SelectSeq(Identity(chunks[k]), LAMBDA h : h._id \in IdsOf(success))
                 /\ Identity(failed) =
                      SelectSeq(Identity(chunks[k]), LAMBDA h : h._id \in IdsOf(failed))

C5_Witness ==
    \E k \in 1..Len(batchRequest) :
        /\ batchRequest[k].settled
        /\ Len(chunks[k]) = 2
        /\ Len(batchRequest[k].value.failed) = 2
        /\ chunks[k][1]._id > chunks[k][2]._id

\* C6: for chunkSize >= 1 chunkWebHooks returns groups whose concatenation is
\* the input, each non-empty and of size <= chunkSize, all but the last of size
\* exactly chunkSize, and no group at all for an empty input.
C6_Chunking ==
    (c_pc # "ready" /\ c_size >= 1) =>
        /\ c_pc = "returned"
        /\ Concat(c_chunks) = c_arr
        /\ \A g \in 1..Len(c_chunks) :
              /\ Len(c_chunks[g]) >= 1
              /\ Len(c_chunks[g]) <= c_size
              /\ g < Len(c_chunks) => Len(c_chunks[g]) = c_size
        /\ (c_arr = <<>>) => (c_chunks = <<>>)

C6_Witness ==
    /\ c_pc = "returned" /\ c_size = 2 /\ Len(c_arr) = 3
    /\ Len(c_chunks) = 2 /\ Len(c_chunks[2]) = 1

\* C7: an attempt is a success only when the post completed with status 200;
\* any other status and any transport error gives success = false; a failing
\* attempt raises nothing, so the handler ends in error only when no post was
\* issued and every endpoint of a returned trigger was attempted and classified.
C7_Classification ==
    /\ \A k \in 1..Len(prom) : \A j \in 1..Len(prom[k]) :
          prom[k][j].settled =>
              (prom[k][j].value.success <=>
                  (prom[k][j].res.kind = "response" /\ prom[k][j].res.status = 200))
    /\ pc = "error" => posted = {}
    /\ pc = "done" => IdsOf(webHooks) = Succeeded(0) \cup Failed(0)

C7_Witness ==
    /\ pc = "done"
    /\ \E k \in 1..Len(prom) : \E j, l \in 1..Len(prom[k]) :
          /\ prom[k][j].settled /\ prom[k][j].res.kind = "response"
          /\ prom[k][j].res.status = 201 /\ ~prom[k][j].value.success
          /\ prom[k][l].settled /\ prom[k][l].res.kind = "error"

\* C8: no post of round k+1 is issued before every post of round k has settled.
C8_RoundsSequential ==
    \A p \in posted : \A q \in posted :
        q[1] = p[1] + 1 => (\E b \in BOOLEAN : <<p[1], p[2], b>> \in outcomes)

C8_Witness ==
    /\ pc = "awaiting" /\ i = 1 /\ Len(chunks) = 2
    /\ \E k \in 1..Len(prom) : \E j \in 1..Len(prom[k]) : ~prom[k][j].settled

\* C9: with BATCH_SIZE < 1 or RETRY_COUNT < 1 the service refuses to run: no
\* trigger reaches chunking or delivery.
C9_InvalidConfigRejected ==
    ~ValidConfig => (pc \notin {"awaiting", "hung", "done"} /\ posted = {})

\* C10: chunkWebHooks with chunkSize < 1 on a non-empty input ends at once with
\* an invalid-argument error instead of looping.
C10_FailFast ==
    (c_pc # "ready" /\ c_size < 1 /\ Len(c_arr) > 0) => c_pc = "invalid-argument"

\* C11: the caller gets a report or an error, never both: when find rejects
\* the handler ends in error with no post issued and no report built; when find
\* resolves the handler never ends in error, whatever the posts do, and what it
\* returns is a report with its success and failed buckets.
C11_ReportOrError ==
    /\ findResult = "rejected" =>
          (pc = "error" /\ posted = {} /\ trigger_Report = <<>>
              /\ \A id \in Ids : nPosts[id] = 0)
    /\ findResult = "resolved" => pc \in {"awaiting", "hung", "done"}
    /\ pc = "error" => findResult = "rejected"
    /\ pc = "done" =>
          (findResult = "resolved" /\ {SuccessKey, FailedKey} \subseteq DOMAIN trigger_Report)

C11_Witness ==
    /\ pc = "done" /\ findResult = "resolved"
    /\ \E k \in 1..Len(prom) : \E j \in 1..Len(prom[k]) :
          prom[k][j].settled /\ prom[k][j].res.kind = "error"
    /\ IdsOf(Bucket(FailedKey)) # {}

\* the rounds in which a post was issued to endpoint id
RoundsOf(id) == { p \in posted : p[2] = id }

\* C12: with RETRY_COUNT = N >= 1 an endpoint is posted to at most N times, at
\* most once per round; an endpoint of a returned trigger that never succeeded
\* was posted to exactly N times; with N = 1 only round 0 is run and its failures
\* are the failed bucket.
C12_AttemptBound ==
    ValidConfig =>
        /\ \A id \in Ids :
              /\ nPosts[id] <= settings.RETRY_COUNT
              /\ nPosts[id] = Cardinality(RoundsOf(id))
              /\ (pc = "done" /\ id \in IdsOf(webHooks)
                    /\ \A k \in 0..MaxRetry : <<k, id, TRUE>> \notin outcomes)
                  => nPosts[id] = settings.RETRY_COUNT
        /\ settings.RETRY_COUNT = 1 =>
              /\ \A p \in posted : p[1] = 0
              /\ pc = "done" => IdsOf(Bucket(FailedKey)) = Failed(0)

C12_Witness ==
    /\ pc = "done" /\ settings.RETRY_COUNT = 3
    /\ \E id, other \in IdsOf(webHooks) : nPosts[id] = 3 /\ nPosts[other] = 1

\* C13: the returned report has a bucket retrySuccess<k> for every retry round
\* k in 1..RETRY_COUNT-1, empty when nothing was recovered in that round, also
\* when that round had no endpoint to retry.
C13_AllRetryBuckets ==
    (pc = "done" /\ ValidConfig) =>
        \A k \in 1..(settings.RETRY_COUNT - 1) :
            /\ RetryKey(k) \in DOMAIN trigger_Report
            /\ Succeeded(k) = {} => trigger_Report[RetryKey(k)] = <<>>

\* C14: when find resolves with an empty list the trigger issues no post in any
\* round and returns a report whose buckets are all empty.
C14_EmptyList ==
    (findResult = "resolved" /\ webHooks = <<>>) =>
        /\ pc \in {"awaiting", "done"}
        /\ posted = {}
        /\ \A id \in Ids : nPosts[id] = 0
        /\ \A key \in DOMAIN trigger_Report : trigger_Report[key] = <<>>
        /\ pc = "done" => {SuccessKey, FailedKey} \subseteq DOMAIN trigger_Report

C14_Witness ==
    /\ pc = "done" /\ findResult = "resolved" /\ webHooks = <<>>
    /\ settings.RETRY_COUNT = 3 /\ FailedKey \in DOMAIN trigger_Report

\* the slots of the current round, by chunk and position
Slots == { <<k, j>> \in (1..Len(prom)) \X (1..MaxHooks + 1) : j <= Len(prom[k]) }
InFlight == Cardinality({ sl \in Slots : ~prom[sl[1]][sl[2]].settled })
SettledNow == Cardinality({ sl \in Slots : prom[sl[1]][sl[2]].settled })

\* C17: while a round is awaited, every endpoint of the round's input has been
\* posted to, whatever its chunk: the posts in flight are the whole input less
\* the posts already settled, so right after the fan-out they number the full
\* round size; BATCH_SIZE bounds only the size of each chunk.
C17_FanOut ==
    pc = "awaiting" =>
        /\ InFlight + SettledNow = Len(Concat(chunks))
        /\ Posted(i) = IdsOf(Concat(chunks))
        /\ SettledNow = Cardinality(Succeeded(i) \cup Failed(i))
        /\ ValidConfig => \A k \in 1..Len(chunks) : Len(chunks[k]) <= settings.BATCH_SIZE

C17_Witness ==
    /\ pc = "awaiting" /\ i = 1 /\ ValidConfig
    /\ InFlight = Len(Concat(chunks))
    /\ InFlight > settings.BATCH_SIZE

\* the outcome record of endpoint h in a round, read from the history
OutcomeOf(round, h) ==
    [success |-> (<<round, h._id, TRUE>> \in outcomes),
     hookURL |-> h.hookURL, _id |-> h._id, name |-> h.name]

\* the batches of a round computed from its input sequence and the outcomes alone
RoundOf(round, input) ==
    LET c == chunkWebHooks(input, settings.BATCH_SIZE).chunks IN
    [k \in 1..Len(c) |->
        groupResponses([j \in 1..Len(c[k]) |-> OutcomeOf(round, c[k][j])])]

RECURSIVE ReportFrom(_, _, _)
ReportFrom(round, failed, report) ==
    IF round < settings.RETRY_COUNT
    THEN LET batches == RoundOf(round, failed) IN
         ReportFrom(round + 1, Flatten(batches, "failed"),
                    AssignEach(report, RetryKey(round), batches))
    ELSE Put(report, FailedKey, failed)

\* the report as a function of the endpoint sequence and the per-attempt outcomes
ReportOf ==
    LET batches == RoundOf(0, webHooks) IN
    ReportFrom(1, Flatten(batches, "failed"),
               Put(<<>>, SuccessKey, Flatten(batches, "success")))

\* C19: the returned report is determined by the endpoint sequence and the
\* success/failure of each attempt; the order in which the posts of a round
\* complete changes neither the buckets nor the order inside them.
C19_OrderIndependent ==
    pc = "done" => trigger_Report = ReportOf

C19_Witness ==
    /\ pc = "done" /\ settings.BATCH_SIZE = 2 /\ settings.RETRY_COUNT = 2
    /\ Len(webHooks) = 3
    /\ Len(Bucket(FailedKey)) = 2
    /\ Bucket(FailedKey)[1]._id = webHooks[1]._id
    /\ Bucket(FailedKey)[2]._id = webHooks[2]._id

\* C20: the input of round k+1 is a subset of the input of round k, and every
\* endpoint of the failed bucket was posted to in each round 0..RETRY_COUNT-1
\* and failed each time: it has no successful attempt.
C20_FailureSetShrinks ==
    /\ \A k \in 0..MaxRetry : Posted(k + 1) \subseteq Posted(k)
    /\ (pc = "done" /\ ValidConfig) =>
          \A id \in IdsOf(Bucket(FailedKey)) :
              /\ \A k \in 0..(settings.RETRY_COUNT - 1) :
                    <<k, id>> \in posted /\ <<k, id, FALSE>> \in outcomes
              /\ \A k \in 0..MaxRetry : <<k, id, TRUE>> \notin outcomes

C20_Witness ==
    /\ pc = "done" /\ settings.RETRY_COUNT = 3
    /\ Cardinality(Posted(0)) = 3 /\ Cardinality(Posted(1)) = 2 /\ Cardinality(Posted(2)) = 1
    /\ Len(Bucket(FailedKey)) = 1

\* C16: every post is bounded by a timeout, so with nothing assumed about the
\* endpoints a started round still completes and the trigger returns its report.
C16_AttemptsBounded ==
    (pc = "awaiting" /\ ValidConfig) ~> (pc = "done")

\* C18: with BATCH_SIZE >= 1 and RETRY_COUNT >= 1 and every post settling in the
\* end, initateProcessing reaches done; the rounds run are 0..RETRY_COUNT-1 in
\* order, none beyond; the failures of round RETRY_COUNT-1 are the failed bucket;
\* the coordinator never ends in error.
C18_Terminates ==
    /\ (findResult = "resolved" /\ ValidConfig) ~> (pc = "done")
    /\ [](ValidConfig =>
            /\ \A p \in posted : p[1] <= settings.RETRY_COUNT - 1
            /\ i <= settings.RETRY_COUNT - 1
            /\ findResult = "resolved" => pc \in {"awaiting", "done"}
            /\ pc = "done" =>
                  /\ i = settings.RETRY_COUNT - 1
                  /\ trigger_Report[FailedKey] = failedRequests
                  /\ IdsOf(failedRequests) = Failed(settings.RETRY_COUNT - 1))
    /\ [][pc' = "awaiting" => (i' = IF pc = "idle" THEN 0 ELSE i + 1)]_<<pc, i>>

C18_Witness ==
    /\ pc = "done" /\ settings.RETRY_COUNT = 3 /\ i = 2
    /\ Len(failedRequests) = 2 /\ Cardinality(Failed(2)) = 2

\* the locals and history of the running trigger call, as a record
thisCall ==
    [pc |-> pc, webHooks |-> webHooks, i |-> i, chunks |-> chunks, prom |-> prom,
     batchRequest |-> batchRequest, failedRequests |-> failedRequests,
     successRequests |-> successRequests, trigger_Report |-> trigger_Report,
     posted |-> posted, outcomes |-> outcomes, nPosts |-> nPosts, findResult |-> findResult]

\* call works on the list its own find returned and on its own outcomes: every
\* post goes to an endpoint of that list at the URL the list holds, round 0 covers
\* the whole list, and every report entry is such an endpoint with an outcome of
\* this call
OwnSnapshot(call) ==
    /\ \A p \in call.posted : p[2] \in IdsOf(call.webHooks)
    /\ call.pc \in {"awaiting", "done"} =>
          { p[2] : p \in { q \in call.posted : q[1] = 0 } } = IdsOf(call.webHooks)
    /\ \A k \in 1..Len(call.prom) : \A j \in 1..Len(call.prom[k]) :
          \E x \in 1..Len(call.webHooks) :
              /\ call.webHooks[x]._id = call.chunks[k][j]._id
              /\ call.webHooks[x].hookURL = call.prom[k][j].hookURL
    /\ \A key \in DOMAIN call.trigger_Report :
          \A j \in 1..Len(call.trigger_Report[key]) :
              LET entry == call.trigger_Report[key][j] IN
              /\ \E x \in 1..Len(call.webHooks) :
                    /\ call.webHooks[x]._id = entry._id
                    /\ call.webHooks[x].name = entry.name
                    /\ call.webHooks[x].hookURL = entry.hookURL
              /\ \E k \in 0..MaxRetry : <<k, entry._id, entry.success>> \in call.outcomes

\* C15: a trigger call reads the collection once, at its start: documents
\* created, updated or removed while it is in flight change neither the endpoints
\* and URLs it posts to in any round nor its report, and of two overlapping calls
\* each works on its own list, failures and report.
C15_OwnSnapshot ==
    /\ OwnSnapshot(thisCall)
    /\ OwnSnapshot(otherCall)
    /\ pc = "done" => trigger_Report = ReportOf

C15_Witness ==
    /\ pc = "awaiting" /\ i = 1
    /\ otherCall.findResult = "resolved" /\ otherCall.pc = "awaiting"
    /\ otherCall.webHooks # webHooks
    /\ otherCall.webHooks = db
    /\ \E k \in 1..Len(prom) : \E j \in 1..Len(prom[k]) :
          /\ ~prom[k][j].settled
          /\ \A x \in 1..Len(db) : db[x].hookURL # prom[k][j].hookURL

====
